---- MODULE Spec2Model ----
(***************************************************************************)
(* The Chasement virtual machine: a stack based interpreter whose program  *)
(* is a flat byte sequence, one opcode per byte.                           *)
(*                                                                         *)
(* The repository holds two revisions of the interpreter: the binary of    *)
(* src/main.rs (VM, with its own instruction table) and the library crate  *)
(* chasement (Vm, with the table built from the base instruction group).   *)
(* Their loops and instructions are the same code; they differ in the      *)
(* table.  The model runs both: `instructions` is the table of the run.    *)
(*                                                                         *)
(* Addresses are usize values.  A usize word is modelled by its two's      *)
(* complement representative: 0, 1, 2, ... are themselves and the highest  *)
(* address usize::MAX is -1, usize::MAX - 1 is -2, and so on.  The cast    *)
(* `i as usize` of an i64 is then the identity on representatives, and     *)
(* wrapping_sub(1) at 0 is -1.  No program is as long as usize::MAX bytes, *)
(* so no negative representative addresses a program byte.                 *)
(***************************************************************************)
EXTENDS Integers, Sequences, FiniteSets, TLC

VARIABLES
    program,          \* Context.program: the bytes, fixed for the run
    instructions,     \* Vm.instructions: opcode -> instruction
    overflow_checks,  \* the build: TRUE when `+=` traps on overflow (debug)
    pc,               \* Context.pc
    stack,            \* Context.stack, top last
    auxiliary_stack,  \* Context.auxiliary_stack, top last
    output,           \* the bytes written to stdout so far
    status,           \* "running", "halted", "exited", "fault", "hung"
    fault,            \* what the fatal error reported
    last,             \* the last loop iteration: opcode fetched, where, pc left
    steps             \* loop iterations so far

vars == <<program, instructions, overflow_checks, pc, stack, auxiliary_stack,
          output, status, fault, last, steps>>

-----------------------------------------------------------------------------
(* Bounds of the model.                                                    *)

\* Longest program drawn from the whole alphabet.
MaxLen == 2
\* Loop iterations followed per run.
MaxSteps == 8
\* Highest jump target of the generated jump programs.
MaxTarget == 3
\* Longest program drawn from the core alphabet.
MaxCoreLen == 3

-----------------------------------------------------------------------------
(* Bytes.                                                                  *)

\* The byte (ASCII code) of a one character name.
Ord(c) ==
    CASE c = "\t" -> 9   [] c = "\n" -> 10  [] c = "\r" -> 13  [] c = " " -> 32
      [] c = "!" -> 33   [] c = "#" -> 35   [] c = "'" -> 39   [] c = "(" -> 40
      [] c = ")" -> 41   [] c = "*" -> 42   [] c = "+" -> 43   [] c = "," -> 44
      [] c = "-" -> 45
      [] c = "0" -> 48   [] c = "1" -> 49   [] c = "2" -> 50   [] c = "3" -> 51
      [] c = "4" -> 52   [] c = "5" -> 53   [] c = "6" -> 54   [] c = "7" -> 55
      [] c = "8" -> 56   [] c = "9" -> 57   [] c = ":" -> 58
      [] c = "=" -> 61   [] c = "A" -> 65   [] c = "B" -> 66   [] c = "C" -> 67
      [] c = "I" -> 73   [] c = "M" -> 77   [] c = "[" -> 91   [] c = "\\" -> 92  [] c = "]" -> 93
      [] c = "a" -> 97   [] c = "d" -> 100  [] c = "e" -> 101  [] c = "f" -> 102
      [] c = "h" -> 104  [] c = "i" -> 105  [] c = "j" -> 106  [] c = "l" -> 108  [] c = "m" -> 109  [] c = "n" -> 110
      [] c = "o" -> 111  [] c = "p" -> 112  [] c = "r" -> 114  [] c = "s" -> 115
      [] c = "t" -> 116  [] c = "u" -> 117  [] c = "w" -> 119  [] c = "x" -> 120
      [] c = "z" -> 122

\* A program written as a tuple of one character names.
Prog(cs) == [i \in 1..Len(cs) |-> Ord(cs[i])]

\* b'0'..=b'9'
Digits == Ord("0")..Ord("9")

-----------------------------------------------------------------------------
(* Data (lib.rs).  Str and Float exist in the enum; their payloads are     *)
(* never built by an instruction, they are carried as opaque values.       *)

DInt(i) == [tag |-> "Int", val |-> i]
DBool(b) == [tag |-> "Bool", val |-> b]
DChar(c) == [tag |-> "Char", val |-> c]

\* Option::None of a pop() or top()
NoneData == [tag |-> "None"]

\* #[derive(PartialEq)]: same variant and same payload
DataEq(a, b) == a.tag = b.tag /\ a.val = b.val

\* The decimal digits of a natural number, most significant first.
RECURSIVE Decimal(_)
Decimal(n) == IF n < 10 THEN <<Ord("0") + n>>
              ELSE Append(Decimal(n \div 10), Ord("0") + (n % 10))

\* Display for i64
DisplayInt(i) == IF i < 0 THEN <<Ord("-")>> \o Decimal(0 - i) ELSE Decimal(i)

\* Display for bool
DisplayBool(b) == IF b THEN Prog(<<"t", "r", "u", "e">>)
                  ELSE Prog(<<"f", "a", "l", "s", "e">>)

\* impl Display for Data: the payload, no annotation
Display(v) ==
    CASE v.tag = "Int" -> DisplayInt(v.val)
      [] v.tag = "Bool" -> DisplayBool(v.val)
      [] v.tag = "Char" -> <<v.val>>

\* Debug for char: quoted, the escapes of char::escape_debug
DebugChar(c) ==
    <<Ord("'")>> \o
    (CASE c = 0 -> Prog(<<"\\", "0">>)
       [] c = Ord("\t") -> Prog(<<"\\", "t">>)
       [] c = Ord("\n") -> Prog(<<"\\", "n">>)
       [] c = Ord("\r") -> Prog(<<"\\", "r">>)
       [] c = Ord("'") -> Prog(<<"\\", "'">>)
       [] c = Ord("\\") -> Prog(<<"\\", "\\">>)
       [] OTHER -> <<c>>)
    \o <<Ord("'")>>

\* #[derive(Debug)] for Data: Int(5), Bool(true), Char('a')
Debug(v) ==
    CASE v.tag = "Int" -> Prog(<<"I", "n", "t", "(">>) \o DisplayInt(v.val) \o <<Ord(")")>>
      [] v.tag = "Bool" -> Prog(<<"B", "o", "o", "l", "(">>) \o DisplayBool(v.val) \o <<Ord(")")>>
      [] v.tag = "Char" -> Prog(<<"C", "h", "a", "r", "(">>) \o DebugChar(v.val) \o <<Ord(")")>>

-----------------------------------------------------------------------------
(* Program storage and the context (lib.rs).                               *)

\* usize::MAX, as its two's complement representative
UsizeMax == -1

\* Option::None of opcode_at: no byte is negative
None == -1

\* ProgramStorage::opcode_at: self.get(idx).copied()
opcode_at(prog, idx) == IF 0 <= idx /\ idx < Len(prog) THEN prog[idx + 1] ELSE None

\* Context::new
Context_new == [stack |-> <<>>, auxiliary_stack |-> <<>>, pc |-> 0]

\* Context::cur_byte
cur_byte(c) == opcode_at(program, c.pc)

\* Context::top
top(c) == IF c.stack = <<>> THEN NoneData ELSE c.stack[Len(c.stack)]

\* Context::aux_top
aux_top(c) == IF c.auxiliary_stack = <<>> THEN NoneData
              ELSE c.auxiliary_stack[Len(c.auxiliary_stack)]

\* Context::pop: the value popped (val) and the context after it (ctx)
pop(c) == IF c.stack = <<>> THEN [val |-> NoneData, ctx |-> c]
          ELSE [val |-> c.stack[Len(c.stack)],
                ctx |-> [c EXCEPT !.stack = SubSeq(c.stack, 1, Len(c.stack) - 1)]]

\* Context::push
push(c, v) == [c EXCEPT !.stack = Append(c.stack, v)]

\* Context::set_pc
set_pc(c, p) == [c EXCEPT !.pc = p]

\* usize::wrapping_add(1): usize::MAX + 1 is 0
wrapping_add1(p) == IF p = UsizeMax THEN 0 ELSE p + 1

\* usize::wrapping_sub(1): 0 - 1 is usize::MAX
wrapping_sub1(p) == IF p = 0 THEN UsizeMax ELSE p - 1

\* `self.pc += 1` traps ("attempt to add with overflow") at usize::MAX in a
\* build with overflow checks
advance_traps(c) == overflow_checks /\ c.pc = UsizeMax

\* Context::advance, where it does not trap: `self.pc += 1` wraps in a build
\* without overflow checks
advance(c) == [c EXCEPT !.pc = IF c.pc = UsizeMax THEN 0 ELSE c.pc + 1]

\* Context::prev
prev(c) == [c EXCEPT !.pc = wrapping_sub1(c.pc)]

\* Context::to_auxiliary
to_auxiliary(c) ==
    LET r == pop(c) IN
    IF r.val = NoneData THEN c
    ELSE [r.ctx EXCEPT !.auxiliary_stack = Append(r.ctx.auxiliary_stack, r.val)]

\* Context::to_main
to_main(c) ==
    IF c.auxiliary_stack = <<>> THEN c
    ELSE push([c EXCEPT !.auxiliary_stack =
                   SubSeq(c.auxiliary_stack, 1, Len(c.auxiliary_stack) - 1)],
              c.auxiliary_stack[Len(c.auxiliary_stack)])

\* `i as usize` of an i64: the same word
as_usize(i) == i

-----------------------------------------------------------------------------
(* How an instruction ends.  It returns to the loop, or the process ends   *)
(* inside it: error() (exit status 1), a panic (exit status 101), `x`      *)
(* (exit status 0); or it never ends.  out is what it wrote to stdout.     *)

NoFault == [msg |-> "", args |-> <<>>, code |-> 0]

Return(c) == [ctx |-> c, out |-> <<>>, end |-> "return", fault |-> NoFault]

ReturnOut(c, o) == [ctx |-> c, out |-> o, end |-> "return", fault |-> NoFault]

\* Seeded fault: error that reports and returns to the instruction's
\* caller instead of ending the process.
error_returns(c, msg, args) ==
    [ctx |-> c, out |-> <<>>, end |-> "return",
     fault |-> [msg |-> msg, args |-> args, code |-> 0]]

\* instructions::error: eprintln!("ERROR: {}", err); std::process::exit(1)
error(c, msg, args) ==
    [ctx |-> c, out |-> <<>>, end |-> "fault",
     fault |-> [msg |-> msg, args |-> args, code |-> 1]]

\* panic!, a failed unwrap(), an arithmetic overflow trap
panic(c, msg, args) ==
    [ctx |-> c, out |-> <<>>, end |-> "fault",
     fault |-> [msg |-> msg, args |-> args, code |-> 101]]

\* a loop that never ends
Hang(c) == [ctx |-> c, out |-> <<>>, end |-> "hung", fault |-> NoFault]

-----------------------------------------------------------------------------
(* The instructions (instructions/base.rs; the same functions, without the *)
(* type parameter, serve the binary of src/main.rs).                       *)

\* (' ') nop
nop(c) == Return(c)

\* the `while let` of comment
RECURSIVE comment_loop(_)
comment_loop(c) ==
    LET ch == cur_byte(c) IN
    IF ch = None THEN c
    ELSE IF ch = Ord("#") \/ ch = Ord("\n") THEN c
    ELSE comment_loop(advance(c))

\* Seeded fault: comment without the advance() in front of the loop: the
\* loop meets the opening `#` and breaks at once.
comment_from_open(c) == Return(comment_loop(c))

\* ('#') comment
comment(c) == Return(comment_loop(advance(c)))

\* TRUE when the program holds a byte that is no digit
HasNonDigit(prog) == \E i \in 1..Len(prog) : prog[i] \notin Digits

\* the `loop` of digit.  At an address with no byte nothing breaks the loop:
\* it advances up to usize::MAX, where `pc += 1` traps in a build with overflow
\* checks and wraps to 0 in a build without; a program of digits only has
\* no byte that breaks the loop then.
RECURSIVE digit_loop(_, _)
digit_loop(c, num) ==
    LET d == cur_byte(c) IN
    IF d # None
    THEN IF d >= 10 + Ord("0") \/ d < Ord("0")
         THEN [ctx |-> prev(c), num |-> num, end |-> "return"]
         ELSE digit_loop(advance(c), (num * 10) + (d - Ord("0")))
    ELSE LET m == set_pc(c, UsizeMax) IN
         IF advance_traps(m) THEN [ctx |-> m, num |-> num, end |-> "overflow"]
         ELSE IF ~HasNonDigit(program) THEN [ctx |-> c, num |-> num, end |-> "hung"]
         ELSE digit_loop(advance(m), num)

\* ('0'-'9') digit
digit(c) ==
    LET r == digit_loop(c, 0) IN
    CASE r.end = "return" -> Return(push(r.ctx, DInt(r.num)))
      [] r.end = "overflow" -> panic(r.ctx, "attempt to add with overflow", <<>>)
      [] r.end = "hung" -> Hang(r.ctx)

\* ('a') auxiliary_push
auxiliary_push(c) == Return(to_auxiliary(c))

\* ('m') main_push
main_push(c) == Return(to_main(c))

\* ('p') print
print(c) ==
    LET r == pop(c) IN
    IF r.val # NoneData THEN ReturnOut(r.ctx, Display(r.val))
    ELSE error(r.ctx, "Called print on an empty stack", <<>>)

\* Seeded fault: dup that takes the value with pop() instead of top(), so
\* that the stack ends as long as it was.
dup_popping(c) ==
    LET r == pop(c) IN
    IF r.val # NoneData THEN Return(push(r.ctx, r.val))
    ELSE error(c, "Called dup on an empty stack", <<>>)

\* ('d') dup
dup(c) ==
    LET val == top(c) IN
    IF val # NoneData THEN Return(push(c, val))
    ELSE error(c, "Called dup on an empty stack", <<>>)

\* ('e') empty
empty(c) == Return(push(c, DBool(top(c) = NoneData)))

\* ('f') |ctx| ctx.push(Data::Bool(false))
push_false(c) == Return(push(c, DBool(FALSE)))

\* ('t') |ctx| ctx.push(Data::Bool(true))
push_true(c) == Return(push(c, DBool(TRUE)))

\* Seeded fault: jump that sets pc to the target itself, without the
\* wrapping_sub(1) that makes up for the loop's increment.
jump_to_target(c) ==
    LET r == pop(c) IN
    CASE r.val.tag = "Int" -> Return(set_pc(r.ctx, as_usize(r.val.val)))
      [] r.val = NoneData -> error(r.ctx, "Called jump on empty stack", <<>>)
      [] OTHER -> error(r.ctx, "Called jump on non int element", <<>>)

\* ('j') jump
jump(c) ==
    LET r == pop(c) IN
    CASE r.val.tag = "Int" -> Return(set_pc(r.ctx, wrapping_sub1(as_usize(r.val.val))))
      [] r.val = NoneData -> error(r.ctx, "Called jump on empty stack", <<>>)
      [] OTHER -> error(r.ctx, "Called jump on non int element", <<>>)

\* Seeded fault: skip_if that steps with prev() where it should advance().
skip_if_back(c) ==
    LET r == pop(c) IN
    CASE r.val = DBool(TRUE) -> Return(prev(r.ctx))
      [] r.val = DBool(FALSE) -> Return(r.ctx)
      [] OTHER -> error(r.ctx, "Skip called on a non boolean value", <<>>)

\* ('s') skip_if.  Its advance() runs at the address of the `s`, never at
\* usize::MAX.
skip_if(c) ==
    LET r == pop(c) IN
    CASE r.val = DBool(TRUE) -> Return(advance(r.ctx))
      [] r.val = DBool(FALSE) -> Return(r.ctx)
      [] OTHER -> error(r.ctx, "Skip called on a non boolean value", <<>>)

\* !i of an i64: the bitwise complement
BitNot(i) == (0 - i) - 1

\* ('!') not
not(c) ==
    LET r == pop(c) IN
    CASE r.val.tag = "Bool" -> Return(push(r.ctx, DBool(~r.val.val)))
      [] r.val.tag = "Int" -> Return(push(r.ctx, DInt(BitNot(r.val.val))))
      [] OTHER -> error(r.ctx, "Not called on a non Int or Bool value", <<>>)

\* Seeded fault: plus that multiplies.
plus_product(c) ==
    LET ra == pop(c)
        rb == pop(ra.ctx) IN
    IF ra.val.tag = "Int" /\ rb.val.tag = "Int"
    THEN Return(push(rb.ctx, DInt(ra.val.val * rb.val.val)))
    ELSE error(rb.ctx, "'+' (Plus) called on invalid combination", <<ra.val, rb.val>>)

\* ('+') plus (instructions.rs, instructions/arithmetic.rs).  The sums of
\* the runs followed here stay far inside the i64 range.
plus(c) ==
    LET ra == pop(c)
        rb == pop(ra.ctx) IN
    IF ra.val.tag = "Int" /\ rb.val.tag = "Int"
    THEN Return(push(rb.ctx, DInt(ra.val.val + rb.val.val)))
    ELSE error(rb.ctx, "'+' (Plus) called on invalid combination", <<ra.val, rb.val>>)

\* ('=') eq
eq(c) ==
    LET ra == pop(c)
        rb == pop(ra.ctx) IN
    IF ra.val # NoneData /\ rb.val # NoneData
    THEN Return(push(rb.ctx, DBool(DataEq(ra.val, rb.val))))
    ELSE error(rb.ctx, "'=' (Eq) called on invalid combination", <<ra.val, rb.val>>)

\* the lines "    {:?}," of the values of a stack, top first
RECURSIVE DebugLines(_)
DebugLines(st) ==
    IF st = <<>> THEN <<>>
    ELSE Prog(<<" ", " ", " ", " ">>) \o Debug(st[Len(st)]) \o Prog(<<",", "\n">>)
         \o DebugLines(SubSeq(st, 1, Len(st) - 1))

\* ('h') print_stack
print_stack(c) ==
    ReturnOut(c, Prog(<<"M", "a", "i", "n", ":", " ", "[", "\n">>)
                 \o DebugLines(c.stack)
                 \o Prog(<<"]", "\n", "A", "u", "x", ":", " ", "[", "\n">>)
                 \o DebugLines(c.auxiliary_stack)
                 \o Prog(<<"]", "\n">>))

\* Seeded fault: input that pushes the byte read as a one character String.
input_as_str(c, buf) == Return(push(c, [tag |-> "Str", val |-> <<buf>>]))

\* (',') input: buf is the byte read, 0 when stdin is at its end
input(c, buf) == Return(push(c, DChar(buf)))

\* Seeded fault: charify without the escape sequences: a backslash is
\* pushed like any other byte.
charify_raw(c) ==
    LET c1 == advance(c)
        byte == cur_byte(c1) IN
    IF byte # None THEN Return(push(c1, DChar(byte)))
    ELSE error(c1, "Used ' directly before EOF", <<>>)

\* ('\'') charify.  Its advance() calls run at addresses of the program or
\* one past it, never at usize::MAX.
charify(c) ==
    LET c1 == advance(c)
        byte == cur_byte(c1)
        c2 == advance(c1)
        byte2 == cur_byte(c2) IN
    IF byte # None
    THEN IF byte = Ord("\\")
         THEN IF byte2 = None
              THEN panic(c2, "called Option::unwrap() on a None value", <<>>)
              ELSE IF byte2 = Ord("n") THEN Return(push(c2, DChar(Ord("\n"))))
              ELSE error(c2, "Invalid escape sequence \\", <<byte2>>)
         ELSE Return(push(c1, DChar(byte)))
    ELSE error(c1, "Used ' directly before EOF", <<>>)

\* Seeded fault: cur_pc that pushes the address after the `[`.
cur_pc_next(c) == Return(push(c, DInt(c.pc + 1)))

\* ('[') cur_pc
cur_pc(c) == Return(push(c, DInt(c.pc)))

\* Seeded fault: the scan of jump_back that stops on the matching `[`
\* without the prev() before the break.
RECURSIVE jump_back_loop_no_prev(_, _)
jump_back_loop_no_prev(c, cnt) ==
    LET b == cur_byte(c) IN
    IF b = None THEN c
    ELSE IF b = Ord("[") /\ cnt = 1 THEN c
    ELSE IF b = Ord("[") THEN jump_back_loop_no_prev(prev(c), cnt - 1)
    ELSE IF b = Ord("]") THEN jump_back_loop_no_prev(prev(c), cnt + 1)
    ELSE jump_back_loop_no_prev(prev(c), cnt)

\* Seeded fault: the scan of jump_back without the nesting counter: it
\* stops at the first `[` it meets.
RECURSIVE jump_back_loop_first_open(_, _)
jump_back_loop_first_open(c, cnt) ==
    LET b == cur_byte(c) IN
    IF b = None THEN c
    ELSE IF b = Ord("[") THEN prev(c)
    ELSE jump_back_loop_first_open(prev(c), cnt)

\* the values the nesting counter `cnt` of jump_back takes, one for each
\* byte the `while let` scans, in the order scanned
RECURSIVE jump_back_counts(_, _)
jump_back_counts(c, cnt) ==
    LET b == cur_byte(c) IN
    IF b = None THEN <<>>
    ELSE IF b = Ord("[") /\ cnt = 1 THEN <<cnt>>
    ELSE IF b = Ord("[") THEN <<cnt - 1>> \o jump_back_counts(prev(c), cnt - 1)
    ELSE IF b = Ord("]") THEN <<cnt + 1>> \o jump_back_counts(prev(c), cnt + 1)
    ELSE <<cnt>> \o jump_back_counts(prev(c), cnt)

\* the `while let` of jump_back
RECURSIVE jump_back_loop(_, _)
jump_back_loop(c, cnt) ==
    LET b == cur_byte(c) IN
    IF b = None THEN c
    ELSE IF b = Ord("[") /\ cnt = 1 THEN prev(c)
    ELSE IF b = Ord("[") THEN jump_back_loop(prev(c), cnt - 1)
    ELSE IF b = Ord("]") THEN jump_back_loop(prev(c), cnt + 1)
    ELSE jump_back_loop(prev(c), cnt)

\* Seeded fault: jump_back that treats a `]` without a `[` as an error.
\* jump_back_finds is TRUE when the scan ends on a `[`.
RECURSIVE jump_back_finds(_, _)
jump_back_finds(c, cnt) ==
    LET b == cur_byte(c) IN
    IF b = None THEN FALSE
    ELSE IF b = Ord("[") /\ cnt = 1 THEN TRUE
    ELSE IF b = Ord("[") THEN jump_back_finds(prev(c), cnt - 1)
    ELSE IF b = Ord("]") THEN jump_back_finds(prev(c), cnt + 1)
    ELSE jump_back_finds(prev(c), cnt)

\* the seeded jump_back: error() where the scan finds no `[`
jump_back_strict(c) ==
    IF jump_back_finds(c, 0) THEN Return(jump_back_loop(c, 0))
    ELSE error(c, "']' without a matching '['", <<>>)

\* (']') jump_back
jump_back(c) == Return(jump_back_loop(c, 0))

\* Seeded fault: the scan of paren_open without the nesting counter: it
\* stops at the first `)` it meets.
RECURSIVE paren_open_loop_first_close(_, _)
paren_open_loop_first_close(c, cnt) ==
    LET byte == cur_byte(c) IN
    IF byte = None THEN c
    ELSE IF byte = Ord(")") THEN c
    ELSE paren_open_loop_first_close(advance(c), cnt)

\* the `while let` of paren_open
RECURSIVE paren_open_loop(_, _)
paren_open_loop(c, cnt) ==
    LET byte == cur_byte(c) IN
    IF byte = None THEN c
    ELSE IF byte = Ord(")") /\ cnt = 1 THEN c
    ELSE IF byte = Ord(")") THEN paren_open_loop(advance(c), cnt - 1)
    ELSE IF byte = Ord("(") THEN paren_open_loop(advance(c), cnt + 1)
    ELSE paren_open_loop(advance(c), cnt)

\* Seeded fault: paren_open that treats a `(` without a `)` as an error:
\* the scan ended at an address with no byte.
paren_open_strict(c) ==
    LET r == paren_open_loop(c, 0) IN
    IF cur_byte(r) = None THEN error(r, "'(' without a matching ')'", <<>>)
    ELSE Return(r)

\* ('(') paren_open
paren_open(c) == Return(paren_open_loop(c, 0))

\* Seeded fault: swap that pushes the two values back in the order it
\* popped them from.
swap_restoring(c) ==
    LET ra == pop(c)
        rb == pop(ra.ctx) IN
    IF ra.val # NoneData /\ rb.val # NoneData
    THEN Return(push(push(rb.ctx, rb.val), ra.val))
    ELSE error(rb.ctx, "'w' (Swap) called on invalid stack", <<ra.val, rb.val>>)

\* ('w') swap
swap(c) ==
    LET ra == pop(c)
        rb == pop(ra.ctx) IN
    IF ra.val # NoneData /\ rb.val # NoneData
    THEN Return(push(push(rb.ctx, ra.val), rb.val))
    ELSE error(rb.ctx, "'w' (Swap) called on invalid stack", <<ra.val, rb.val>>)

\* Seeded fault: drop that treats an empty stack as an error, as print and
\* dup do.
drop_checked(c) ==
    LET r == pop(c) IN
    IF r.val # NoneData THEN Return(r.ctx)
    ELSE error(r.ctx, "Called drop on an empty stack", <<>>)

\* ('o') drop
drop(c) == Return(pop(c).ctx)

\* ('x') exit: std::process::exit(0)
exit(c) == [ctx |-> c, out |-> <<>>, end |-> "exit", fault |-> NoFault]

\* Seeded fault: aux_empty that looks at the main stack, as empty does.
aux_empty_of_main(c) == Return(push(c, DBool(top(c) = NoneData)))

\* ('z') aux_empty
aux_empty(c) == Return(push(c, DBool(aux_top(c) = NoneData)))

-----------------------------------------------------------------------------
(* The instruction tables.  A table is a function from the opcodes bound   *)
(* to the name of the instruction bound.                                   *)

\* HashMap::insert: a later binding of an opcode replaces the earlier one
insert(t, opcode, ins) ==
    [o \in (DOMAIN t) \cup {opcode} |-> IF o = opcode THEN ins ELSE t[o]]

\* insert, for each <<opcode, instruction>> of a sequence in turn
RECURSIVE insert_all(_, _)
insert_all(t, pairs) ==
    IF pairs = <<>> THEN t
    ELSE insert_all(insert(t, Head(pairs)[1], Head(pairs)[2]), Tail(pairs))

\* for c in b'0'..=b'9' { instructions.insert(c, digit); }
DigitBindings == [i \in 1..10 |-> <<Ord("0") + (i - 1), "digit">>]

\* the empty table
EmptyTable == [o \in {} |-> ""]

\* the table `instructions` built in main() of the binary src/main.rs
VmInstructions ==
    insert_all(EmptyTable,
        << <<Ord("#"), "comment">>, <<Ord(","), "input">>, <<Ord("'"), "charify">>,
           <<Ord(" "), "nop">>, <<Ord("\n"), "nop">>, <<Ord("a"), "auxiliary_push">>,
           <<Ord("d"), "dup">>, <<Ord("e"), "empty">>, <<Ord("f"), "push_false">>,
           <<Ord("h"), "print_stack">>, <<Ord("j"), "jump">>, <<Ord("m"), "main_push">>,
           <<Ord("o"), "drop">>, <<Ord("p"), "print">>, <<Ord("s"), "skip_if">>,
           <<Ord("t"), "push_true">>, <<Ord("w"), "swap">>, <<Ord("x"), "exit">>,
           <<Ord("z"), "aux_empty">> >>
        \o DigitBindings \o
        << <<Ord("+"), "plus">>, <<Ord("!"), "not">>, <<Ord("="), "eq">>,
           <<Ord("["), "cur_pc">>, <<Ord("]"), "jump_back">>,
           <<Ord("("), "paren_open">>, <<Ord(")"), "nop">> >>)

\* instructions::base::add_base_instructions
add_base_instructions(t) ==
    insert_all(t,
        << <<Ord("!"), "not">>, <<Ord("#"), "comment">>, <<Ord(","), "input">>,
           <<Ord("'"), "charify">>, <<Ord(" "), "nop">>, <<Ord("\n"), "nop">>,
           <<Ord("a"), "auxiliary_push">>, <<Ord("d"), "dup">>, <<Ord("e"), "empty">>,
           <<Ord("f"), "push_false">>, <<Ord("h"), "print_stack">>, <<Ord("j"), "jump">>,
           <<Ord("m"), "main_push">>, <<Ord("o"), "drop">>, <<Ord("p"), "print">>,
           <<Ord("s"), "skip_if">>, <<Ord("t"), "push_true">>, <<Ord("w"), "swap">>,
           <<Ord("x"), "exit">>, <<Ord("z"), "aux_empty">> >>
        \o DigitBindings \o
        << <<Ord("="), "eq">>, <<Ord("["), "cur_pc">>, <<Ord("]"), "jump_back">>,
           <<Ord("("), "paren_open">>, <<Ord(")"), "nop">> >>)

\* the table InstructionSet::new_with hands to its closure: a new, empty one
new_table == EmptyTable

\* InstructionSet::with_base_instructions: registers the base group
with_base_instructions(t) == add_base_instructions(t)

\* the table built in main() of the crate chasement
ChasementInstructions == with_base_instructions(new_table)

\* InstructionSet::get / HashMap::get: the instruction bound, "" for None
get(t, opcode) == IF opcode \in DOMAIN t THEN t[opcode] ELSE ""

-----------------------------------------------------------------------------
(* The programs run.                                                       *)

\* The opcodes of the language.
Opcodes ==
    {Ord(" "), Ord("\n"), Ord(")"), Ord("#")} \cup Digits \cup
    {Ord("a"), Ord("m"), Ord("p"), Ord("d"), Ord("e"), Ord("z"), Ord("f"), Ord("t"),
     Ord("j"), Ord("s"), Ord("!"), Ord("+"), Ord("="), Ord("w"), Ord("o"), Ord("x"),
     Ord("h"), Ord(","), Ord("'"), Ord("["), Ord("]"), Ord("(")}

\* The bytes the generated programs are made of: the opcodes, the escape
\* bytes of a character literal, two control characters and two bytes of
\* the operators not implemented.
Alphabet == Opcodes \cup {Ord("\\"), Ord("n"), Ord("\t"), Ord("\r"), Ord("-"), Ord("*")}

\* every program of at most MaxLen bytes
ShortPrograms == UNION {[1..n -> Alphabet] : n \in 0..MaxLen}

\* n spaces
Spaces(n) == [i \in 1..n |-> Ord(" ")]

\* the literal i, `j`, and room for every target up to MaxTarget
JumpPrograms ==
    {Decimal(i) \o <<Ord("j")>> \o Spaces(n) : i \in 0..MaxTarget, n \in 0..MaxTarget}

\* programs of interest, longer than MaxLen
NamedPrograms ==
    { Prog(<<"2", "3", "+", "p">>),
      Prog(<<"2", " ", "3", "+", "p">>),
      Prog(<<"[", "5", "j", "[", "]", "]">>),
      Prog(<<"[", "[", "t", "s", "]", "]">>),
      Prog(<<"[", "7", "j", "[", "]", "[", "]", "]">>),
      Prog(<<"[", "9", "j", "[", "[", "[", "]", "]", "]", "]">>),
      Prog(<<"9", "9", "9", "9", "9", "9">>),
      Prog(<<"9", "9", "9", "9", "9", "9", "p">>),
      Prog(<<"p", "1", "2">>),
      Prog(<<"t", "s", "x", "4", "2", " ", "d", "+", "p">>),
      Prog(<<"t", "a", "o">>),
      Prog(<<"1", "a", "0", "t", "d", "o">>),
      Prog(<<"0", "t", "f", "w", "w">>),
      Prog(<<"t", "a", "z">>),
      Prog(<<" ", "[", "6", "j", "[", "]", "]">>),
      Prog(<<"(", "1", "(", "2", ")", "3", ")", "4", "p">>),
      Prog(<<"3", "j", "(", "t", ")", "p">>),
      Prog(<<"t", "s", "1", "2", "p">>),
      Prog(<<"f", "s", "1", "2", "p">>),
      Prog(<<"t", "s", "'", "a", "p">>),
      Prog(<<"t", "s", "#", "1", "#", "2">>),
      Prog(<<"t", "'", "\\", "n", "p">>),
      Prog(<<"1", "'", "\\", "t">>),
      Prog(<<"1", "#", "p", "#", "p">>),
      Prog(<<"1", "#", "p", "\n", "p">>),
      Prog(<<"t", "#", "p", "p">>),
      Prog(<<"t", "(", "1", "p">>),
      Prog(<<"1", "a", "t", "'", "a">>) }

\* The bytes of the programs generated to MaxCoreLen.
CoreAlphabet ==
    {Ord("0"), Ord("1"), Ord("t"), Ord("s"), Ord("j"), Ord("["), Ord("]"),
     Ord("p"), Ord("+"), Ord("d"), Ord(" ")}

\* every program of at most MaxCoreLen bytes of the core alphabet
CorePrograms == UNION {[1..n -> CoreAlphabet] : n \in 0..MaxCoreLen}

Programs == ShortPrograms \cup CorePrograms \cup JumpPrograms \cup NamedPrograms

\* the bytes stdin can hold; 0 is also what `,` pushes at the end of stdin
InputBytes == {0, Ord("a")}

-----------------------------------------------------------------------------
(* The interpreter: Vm::new, Vm::run, Vm::run_op.                          *)

StartOfRun == [opcode |-> None, at |-> 0, left |-> 0,
               stack |-> <<>>, auxiliary_stack |-> <<>>]

\* Vm::new(instructions, program): Context::new(program)
Init ==
    /\ program \in Programs
    /\ instructions \in {VmInstructions, ChasementInstructions}
    /\ overflow_checks \in BOOLEAN
    /\ pc = Context_new.pc
    /\ stack = Context_new.stack
    /\ auxiliary_stack = Context_new.auxiliary_stack
    /\ output = <<>>
    /\ status = "running"
    /\ fault = NoFault
    /\ last = StartOfRun
    /\ steps = 0

\* the context of the run
Ctx == [stack |-> stack, auxiliary_stack |-> auxiliary_stack, pc |-> pc]

\* the opcode the loop fetches: self.ctx.program.opcode_at(self.ctx.pc)
Fetched == opcode_at(program, pc)

\* `while let Some(opcode)` finds a byte and the table binds `ins` to it
Dispatch(ins) ==
    /\ status = "running"
    /\ steps < MaxSteps
    /\ Fetched # None
    /\ get(instructions, Fetched) = ins

\* Seeded fault: run_op that adds 1 to pc only when the instruction left pc
\* where it was.
RunOp_conditional(r) ==
    /\ pc' = IF r.end = "return" /\ r.ctx.pc = pc THEN wrapping_add1(r.ctx.pc)
             ELSE r.ctx.pc
    /\ stack' = r.ctx.stack
    /\ auxiliary_stack' = r.ctx.auxiliary_stack
    /\ output' = output \o r.out
    /\ status' = CASE r.end = "return" -> "running"
                   [] r.end = "fault" -> "fault"
                   [] r.end = "exit" -> "exited"
                   [] r.end = "hung" -> "hung"
    /\ fault' = r.fault
    /\ last' = [opcode |-> Fetched, at |-> pc, left |-> r.ctx.pc,
                stack |-> stack, auxiliary_stack |-> auxiliary_stack]
    /\ steps' = steps + 1
    /\ UNCHANGED <<program, instructions, overflow_checks>>

\* the rest of run_op once the instruction ended as r: the pc increment
\* when it returned
RunOp(r) ==
    /\ pc' = IF r.end = "return" THEN wrapping_add1(r.ctx.pc) ELSE r.ctx.pc
    /\ stack' = r.ctx.stack
    /\ auxiliary_stack' = r.ctx.auxiliary_stack
    /\ output' = output \o r.out
    /\ status' = CASE r.end = "return" -> "running"
                   [] r.end = "fault" -> "fault"
                   [] r.end = "exit" -> "exited"
                   [] r.end = "hung" -> "hung"
    /\ fault' = r.fault
    /\ last' = [opcode |-> Fetched, at |-> pc, left |-> r.ctx.pc,
                stack |-> stack, auxiliary_stack |-> auxiliary_stack]
    /\ steps' = steps + 1
    /\ UNCHANGED <<program, instructions, overflow_checks>>

\* Seeded fault: a loop that ends one byte early.
Halt_one_early ==
    /\ status = "running"
    /\ Fetched = None \/ pc = Len(program) - 1
    /\ status' = "halted"
    /\ UNCHANGED <<program, instructions, overflow_checks, pc, stack,
                   auxiliary_stack, output, fault, last, steps>>

\* Vm::run: opcode_at(pc) is None, the loop ends
Halt ==
    /\ status = "running"
    /\ Fetched = None
    /\ status' = "halted"
    /\ UNCHANGED <<program, instructions, overflow_checks, pc, stack,
                   auxiliary_stack, output, fault, last, steps>>

\* Seeded fault: a byte the table binds nothing to is passed over.
NoInstruction_ignored ==
    /\ status = "running"
    /\ steps < MaxSteps
    /\ Fetched # None
    /\ get(instructions, Fetched) = ""
    /\ pc' = wrapping_add1(pc)
    /\ last' = [opcode |-> Fetched, at |-> pc, left |-> pc,
                stack |-> stack, auxiliary_stack |-> auxiliary_stack]
    /\ steps' = steps + 1
    /\ UNCHANGED <<program, instructions, overflow_checks, stack,
                   auxiliary_stack, output, status, fault>>

\* Vm::run_op: the table binds nothing to the opcode, panic!
NoInstruction ==
    /\ status = "running"
    /\ Fetched # None
    /\ get(instructions, Fetched) = ""
    /\ status' = "fault"
    /\ fault' = panic(Ctx, "No instruction for {:?} at {}", <<Fetched, pc>>).fault
    /\ last' = [opcode |-> Fetched, at |-> pc, left |-> pc,
                stack |-> stack, auxiliary_stack |-> auxiliary_stack]
    /\ UNCHANGED <<program, instructions, overflow_checks, pc, stack,
                   auxiliary_stack, output, steps>>

Nop == Dispatch("nop") /\ RunOp(nop(Ctx))
Comment == Dispatch("comment") /\ RunOp(comment(Ctx))
Digit == Dispatch("digit") /\ RunOp(digit(Ctx))
AuxiliaryPush == Dispatch("auxiliary_push") /\ RunOp(auxiliary_push(Ctx))
MainPush == Dispatch("main_push") /\ RunOp(main_push(Ctx))
PrintTop == Dispatch("print") /\ RunOp(print(Ctx))
Dup == Dispatch("dup") /\ RunOp(dup(Ctx))
Empty == Dispatch("empty") /\ RunOp(empty(Ctx))
PushFalse == Dispatch("push_false") /\ RunOp(push_false(Ctx))
PushTrue == Dispatch("push_true") /\ RunOp(push_true(Ctx))
Jump == Dispatch("jump") /\ RunOp(jump(Ctx))
SkipIf == Dispatch("skip_if") /\ RunOp(skip_if(Ctx))
Not == Dispatch("not") /\ RunOp(not(Ctx))
Plus == Dispatch("plus") /\ RunOp(plus(Ctx))
Eq == Dispatch("eq") /\ RunOp(eq(Ctx))
PrintStack == Dispatch("print_stack") /\ RunOp(print_stack(Ctx))
Input == Dispatch("input") /\ \E buf \in InputBytes : RunOp(input(Ctx, buf))
Charify == Dispatch("charify") /\ RunOp(charify(Ctx))
CurPc == Dispatch("cur_pc") /\ RunOp(cur_pc(Ctx))
JumpBack == Dispatch("jump_back") /\ RunOp(jump_back(Ctx))
ParenOpen == Dispatch("paren_open") /\ RunOp(paren_open(Ctx))
Swap == Dispatch("swap") /\ RunOp(swap(Ctx))
Drop == Dispatch("drop") /\ RunOp(drop(Ctx))
Exit == Dispatch("exit") /\ RunOp(exit(Ctx))
AuxEmpty == Dispatch("aux_empty") /\ RunOp(aux_empty(Ctx))

Next ==
    \/ Halt
    \/ NoInstruction
    \/ Nop
    \/ Comment
    \/ Digit
    \/ AuxiliaryPush
    \/ MainPush
    \/ PrintTop
    \/ Dup
    \/ Empty
    \/ PushFalse
    \/ PushTrue
    \/ Jump
    \/ SkipIf
    \/ Not
    \/ Plus
    \/ Eq
    \/ PrintStack
    \/ Input
    \/ Charify
    \/ CurPc
    \/ JumpBack
    \/ ParenOpen
    \/ Swap
    \/ Drop
    \/ Exit
    \/ AuxEmpty

Spec == Init /\ [][Next]_vars

-----------------------------------------------------------------------------
(* What the claims are stated with.                                        *)

\* the top of a stack as it was, NoneData when it was empty
TopOf(st) == IF st = <<>> THEN NoneData ELSE st[Len(st)]

\* a stack without its top
Below(st) == SubSeq(st, 1, Len(st) - 1)

\* how many of the addresses l..r hold the byte b
CountOf(prog, b, l, r) == Cardinality({i \in l..r : prog[i + 1] = b})

\* the addresses l < r with as many `[` as `]` in l..r
BalancedFrom(prog, r) ==
    {l \in 0..(r - 1) :
        CountOf(prog, Ord("["), l, r) = CountOf(prog, Ord("]"), l, r)}

\* the `[` that balances the `]` at address r under proper nesting: the
\* nearest address before r from which the brackets up to r balance; None
\* when no `[` balances it
MatchOf(prog, r) ==
    IF BalancedFrom(prog, r) = {} THEN None
    ELSE CHOOSE l \in BalancedFrom(prog, r) : \A k \in BalancedFrom(prog, r) : k <= l

\* the last loop iteration ran the instruction bound to the byte b, and it
\* returned
Ran(b) == steps > 0 /\ last.opcode = Ord(b) /\ status = "running"

-----------------------------------------------------------------------------
(* C1                                                                      *)

Prog23PlusP == Prog(<<"2", "3", "+", "p">>)
Prog2Sp3PlusP == Prog(<<"2", " ", "3", "+", "p">>)

\* C1, as claimed: the run of "23+p" pushes 2 first, ends normally, without
\* a fatal error, and has then printed exactly "5".
C1_Prints5 ==
    program = Prog23PlusP =>
        /\ steps = 1 => stack = <<DInt(2)>>
        /\ status \in {"running", "halted"}
        /\ status = "halted" => output = <<Ord("5")>>

\* C1, amended: the digits of "23+p" are one literal: its run pushes the one
\* Integer 23, prints nothing and ends in a fatal error at `+`.  With a
\* space between the digits, on the table that binds `+` (src/main.rs), the
\* run of "2 3+p" pushes 2, pushes 3, adds them and prints them: it never
\* faults and executes its five bytes in turn, and it has printed exactly
\* "5" when it halts.
C1_Amended ==
    /\ program = Prog23PlusP =>
        /\ output = <<>>
        /\ status \in {"running", "fault"}
        /\ status = "running" => pc = 2 * steps /\ steps <= 1
        /\ steps = 1 => last.stack \in {<<>>, <<DInt(23)>>}
        /\ (steps = 1 /\ status = "running") => stack = <<DInt(23)>>
        /\ status = "fault" => (last.opcode = Ord("+") /\ last.at = 2)
    /\ (program = Prog2Sp3PlusP /\ instructions = VmInstructions) =>
        /\ status \in {"running", "halted"}
        /\ pc = steps /\ steps <= 5
        /\ steps = 3 => stack = <<DInt(2), DInt(3)>>
        /\ steps = 4 => (stack = <<DInt(5)>> /\ output = <<>>)
        /\ steps = 5 => (stack = <<>> /\ output = <<Ord("5")>>)
        /\ status = "halted" => (steps = 5 /\ output = <<Ord("5")>>)

\* C1 witness: the run of "2 3+p" has halted having printed "5".
C1_Witness ==
    /\ program = Prog2Sp3PlusP
    /\ instructions = VmInstructions
    /\ status = "halted"
    /\ output = <<Ord("5")>>

-----------------------------------------------------------------------------
(* C2                                                                      *)

\* C2, as claimed: after a `]` whose balancing `[` is at address 0, the next
\* fetch is at address 1.
C2_ResumesAtOne ==
    (Ran("]") /\ MatchOf(program, last.at) = 0) => pc = 1

\* C2, amended: after a `]` whose balancing `[` is at address 0, whatever
\* the nesting in between, the next fetch is at address 0, the `[` itself:
\* jump_back leaves pc one before the `[`, at the highest address, and the
\* loop's increment wraps it to 0.
C2_ResumesAtBracket ==
    (steps > 0 /\ last.opcode = Ord("]") /\ MatchOf(program, last.at) = 0) =>
        /\ status = "running"
        /\ last.left = UsizeMax
        /\ pc = 0
        /\ opcode_at(program, pc) = Ord("[")

\* C2 witness: the outermost `]` of "[9j[[[]]]]", three levels of nesting
\* inside it, has run.
C2_Witness ==
    /\ program = Prog(<<"[", "9", "j", "[", "[", "[", "]", "]", "]", "]">>)
    /\ Ran("]")
    /\ last.at = 9
    /\ MatchOf(program, last.at) = 0
    /\ pc = 0

-----------------------------------------------------------------------------
(* C3                                                                      *)

\* the top of the stack the last instruction found is an Integer that
\* addresses a byte of the program
TopWasAddress ==
    /\ TopOf(last.stack).tag = "Int"
    /\ 0 <= TopOf(last.stack).val
    /\ TopOf(last.stack).val < Len(program)

\* C3: `j` with a valid address i on top pops i and the next fetch is at i;
\* for i = 0 jump leaves the highest address and the increment wraps to 0.
C3_JumpLandsOnTarget ==
    (steps > 0 /\ last.opcode = Ord("j") /\ TopWasAddress) =>
        /\ status = "running"
        /\ pc = TopOf(last.stack).val
        /\ opcode_at(program, pc) # None
        /\ stack = Below(last.stack)
        /\ auxiliary_stack = last.auxiliary_stack
        /\ TopOf(last.stack).val = 0 => last.left = UsizeMax

\* C3 witness: `j` has popped 0 at the end of a program, left the highest
\* address, and the next fetch is at 0.
C3_Witness ==
    /\ Ran("j")
    /\ TopOf(last.stack) = DInt(0)
    /\ last.left = UsizeMax
    /\ pc = 0
    /\ last.at = Len(program) - 1

-----------------------------------------------------------------------------
(* C4                                                                      *)

\* the length of the run of digits a program starts with
RECURSIVE DigitRun(_)
DigitRun(prog) ==
    IF prog = <<>> \/ Head(prog) \notin Digits THEN 0 ELSE 1 + DigitRun(Tail(prog))

RECURSIVE Pow10(_)
Pow10(n) == IF n = 0 THEN 1 ELSE 10 * Pow10(n - 1)

\* the number whose decimal digits are the first n bytes of a program
RECURSIVE NumberOf(_, _)
NumberOf(prog, n) ==
    IF n = 0 THEN 0
    ELSE ((Head(prog) - Ord("0")) * Pow10(n - 1)) + NumberOf(Tail(prog), n - 1)

\* the first instruction of the run was a digit literal, and it is over
FirstWasLiteral == steps = 1 /\ last.at = 0 /\ last.opcode \in Digits

\* C4, as claimed: a program that starts with the digits of i, ended by a
\* non-digit byte or by the end of the program, makes digit push exactly
\* the Integer i and return with pc on the last digit, so that the next
\* fetch is one past the number.
C4_LiteralRoundTrip ==
    FirstWasLiteral =>
        /\ status = "running"
        /\ stack = <<DInt(NumberOf(program, DigitRun(program)))>>
        /\ last.left = DigitRun(program) - 1
        /\ pc = DigitRun(program)

-----------------------------------------------------------------------------
(* C5                                                                      *)

\* C5: the loop halts exactly when the fetch finds no byte at pc; halting
\* runs no instruction and changes neither stack nor pc, no fault is
\* reported, nothing follows it, and the empty program halts at once with
\* both stacks empty.
C5_HaltsWhenNoByte ==
    [][ /\ (status = "running" /\ opcode_at(program, pc) = None) => status' = "halted"
        /\ status' = "halted" =>
              /\ status = "running"
              /\ opcode_at(program, pc) = None
              /\ pc >= Len(program) \/ pc < 0
              /\ pc' = pc
              /\ stack' = stack
              /\ auxiliary_stack' = auxiliary_stack
              /\ output' = output
              /\ steps' = steps
              /\ fault' = NoFault
        /\ status # "halted"
        /\ program = <<>> =>
              (status' = "halted" /\ stack' = <<>> /\ auxiliary_stack' = <<>> /\ steps' = 0)
      ]_vars

\* C5 witness: a run that executed instructions has halted past the last
\* byte, values still on the stack.
C5_Witness ==
    /\ status = "halted"
    /\ steps > 1
    /\ pc = Len(program)
    /\ stack # <<>>

-----------------------------------------------------------------------------
(* C6                                                                      *)

\* C6: after every instruction that returned, pc is one more, modulo the
\* address width, than the pc the instruction left, whether or not the
\* instruction changed pc itself.
C6_IncrementAfterEveryInstruction ==
    (steps > 0 /\ status \in {"running", "halted"}) =>
        pc = IF last.left = UsizeMax THEN 0 ELSE last.left + 1

\* C6 witness: `s` has skipped: it left pc one past its own address and
\* the loop added one more.
C6_Witness ==
    /\ Ran("s")
    /\ last.left = last.at + 1
    /\ pc = last.at + 2

-----------------------------------------------------------------------------
(* C7                                                                      *)

\* C7, as claimed: program counter arithmetic never traps, it wraps.
C7_PcArithmeticNeverTraps ==
    ~(status = "fault" /\ fault.msg = "attempt to add with overflow")

-----------------------------------------------------------------------------
(* C8                                                                      *)

\* C8, as claimed: the table the interpreter runs with binds every opcode
\* of the language, so none of them ends a run with "No instruction for".
C8_EveryOpcodeBound ==
    ~(/\ status = "fault"
      /\ fault.msg = "No instruction for {:?} at {}"
      /\ fault.args[1] \in Opcodes)

-----------------------------------------------------------------------------
(* C9                                                                      *)

\* C9: the fetch of a byte the table binds nothing to ends the run in the
\* fatal error that names the byte and pc; no instruction runs, the stacks,
\* pc and the output stay as they were at the fetch, and nothing follows a
\* fatal error.
C9_UnknownOpcodeIsFatal ==
    [][ /\ (/\ status = "running"
            /\ opcode_at(program, pc) # None
            /\ opcode_at(program, pc) \notin DOMAIN instructions) =>
              /\ status' = "fault"
              /\ fault'.msg = "No instruction for {:?} at {}"
              /\ fault'.args = <<opcode_at(program, pc), pc>>
              /\ fault'.code # 0
              /\ pc' = pc
              /\ stack' = stack
              /\ auxiliary_stack' = auxiliary_stack
              /\ output' = output
              /\ steps' = steps
        /\ status # "fault"
      ]_vars

\* C9 witness: a run that had pushed values and moved on was ended by a
\* byte with no instruction.
C9_Witness ==
    /\ status = "fault"
    /\ fault.msg = "No instruction for {:?} at {}"
    /\ fault.args = <<Ord("-"), pc>>
    /\ pc > 0
    /\ stack # <<>>

-----------------------------------------------------------------------------
(* C10                                                                     *)

\* the value under the top of a stack, NoneData when there is none
SecondOf(st) == IF Len(st) < 2 THEN NoneData ELSE st[Len(st) - 1]

\* the byte at pc is an instruction whose operands are missing or of the
\* wrong kind
OperandsMissing ==
    LET op == opcode_at(program, pc)
        a == TopOf(stack)
        b == SecondOf(stack) IN
    \/ op \in {Ord("p"), Ord("d")} /\ stack = <<>>
    \/ op = Ord("j") /\ a.tag # "Int"
    \/ op = Ord("s") /\ a.tag # "Bool"
    \/ op = Ord("!") /\ a.tag \notin {"Bool", "Int"}
    \/ op = Ord("+") /\ ~(a.tag = "Int" /\ b.tag = "Int")
    \/ op \in {Ord("="), Ord("w")} /\ Len(stack) < 2

\* C10: an instruction whose operands are missing or of the wrong kind ends
\* the run in a fatal error (non-zero status) without output, and no
\* instruction runs after a fatal error.
C10_BadOperandsAreFatal ==
    [][ /\ (status = "running" /\ OperandsMissing) =>
              /\ status' = "fault"
              /\ fault'.code # 0
              /\ fault'.msg # ""
              /\ output' = output
        /\ status # "fault"
      ]_vars

\* C10 witness: `+` found a single Integer and ended the run with error().
C10_Witness ==
    /\ status = "fault"
    /\ last.opcode = Ord("+")
    /\ Len(last.stack) = 1
    /\ TopOf(last.stack).tag = "Int"
    /\ fault.msg = "'+' (Plus) called on invalid combination"
    /\ fault.code = 1
    /\ output = <<>>

-----------------------------------------------------------------------------
(* C11                                                                     *)

\* the byte at pc is `a` or `o` with the main stack empty, or `m` with the
\* auxiliary stack empty
MoveOrDropOnEmpty ==
    LET op == opcode_at(program, pc) IN
    \/ op \in {Ord("a"), Ord("o")} /\ stack = <<>>
    \/ op = Ord("m") /\ auxiliary_stack = <<>>

\* C11: `a` on an empty main stack, `m` on an empty auxiliary stack and `o`
\* on an empty main stack are silent no-ops: the step raises no fault,
\* writes nothing, leaves both stacks as they were and adds one to pc.
C11_EmptyStackNoOps ==
    [][ (status = "running" /\ MoveOrDropOnEmpty) =>
              /\ status' = "running"
              /\ fault' = NoFault
              /\ stack' = stack
              /\ auxiliary_stack' = auxiliary_stack
              /\ output' = output
              /\ pc' = pc + 1
      ]_vars

\* C11 witness: `o` has run on an empty main stack while the auxiliary
\* stack held a value, and the run went on.
C11_Witness ==
    /\ Ran("o")
    /\ last.stack = <<>>
    /\ last.auxiliary_stack # <<>>
    /\ stack = <<>>
    /\ auxiliary_stack = last.auxiliary_stack
    /\ pc = last.at + 1

-----------------------------------------------------------------------------
(* C12                                                                     *)

\* C12: when `d` has run on a non-empty main stack and the next instruction
\* is `o`, the main stack is after the `o`, value by value, what it was
\* before the `d`, and the auxiliary stack is what it was.
C12_DupThenDropIsIdentity ==
    [][ (/\ Ran("d")
         /\ last.stack # <<>>
         /\ opcode_at(program, pc) = Ord("o")) =>
              /\ status' = "running"
              /\ Len(stack') = Len(last.stack)
              /\ stack' = last.stack
              /\ auxiliary_stack' = last.auxiliary_stack
      ]_vars

\* C12 witness: in "1a0tdo" the `o` has run right after the `d`, with two
\* values on the main stack and one on the auxiliary stack.
C12_Witness ==
    /\ program = Prog(<<"1", "a", "0", "t", "d", "o">>)
    /\ steps = 6
    /\ Ran("o")
    /\ last.stack = <<DInt(0), DBool(TRUE), DBool(TRUE)>>
    /\ stack = <<DInt(0), DBool(TRUE)>>
    /\ auxiliary_stack = <<DInt(1)>>

-----------------------------------------------------------------------------
(* C13                                                                     *)

\* C13: `w` on a main stack of at least two values, a under b, leaves a on
\* top and b second, the values below them, the length of the stack and the
\* auxiliary stack as they were; and a second `w` right after it restores
\* the stack the first one found.
C13_SwapInvertsTopTwo ==
    [][ /\ (/\ status = "running"
            /\ opcode_at(program, pc) = Ord("w")
            /\ Len(stack) >= 2) =>
              /\ status' = "running"
              /\ Len(stack') = Len(stack)
              /\ TopOf(stack') = SecondOf(stack)
              /\ SecondOf(stack') = TopOf(stack)
              /\ Below(Below(stack')) = Below(Below(stack))
              /\ auxiliary_stack' = auxiliary_stack
        /\ (/\ Ran("w")
            /\ Len(last.stack) >= 2
            /\ opcode_at(program, pc) = Ord("w")) =>
              /\ status' = "running"
              /\ stack' = last.stack
      ]_vars

\* C13 witness: in "0tfww" the second `w` has run: the first had left
\* false under true over 0, the second put true under false again.
C13_Witness ==
    /\ program = Prog(<<"0", "t", "f", "w", "w">>)
    /\ steps = 5
    /\ Ran("w")
    /\ last.stack = <<DInt(0), DBool(FALSE), DBool(TRUE)>>
    /\ stack = <<DInt(0), DBool(TRUE), DBool(FALSE)>>

-----------------------------------------------------------------------------
(* C14                                                                     *)

\* C14: `e` pushes Boolean true exactly when it found the main stack empty
\* and `z` exactly when it found the auxiliary stack empty; both return,
\* keep every value there was and make the main stack one Boolean longer.
C14_EmptinessTests ==
    /\ (steps > 0 /\ last.opcode = Ord("e")) =>
          /\ status \in {"running", "halted"}
          /\ stack = Append(last.stack, DBool(last.stack = <<>>))
          /\ Len(stack) = Len(last.stack) + 1
          /\ auxiliary_stack = last.auxiliary_stack
    /\ (steps > 0 /\ last.opcode = Ord("z")) =>
          /\ status \in {"running", "halted"}
          /\ stack = Append(last.stack, DBool(last.auxiliary_stack = <<>>))
          /\ Len(stack) = Len(last.stack) + 1
          /\ auxiliary_stack = last.auxiliary_stack

\* C14 witness: `z` has run with a value on the auxiliary stack and none on
\* the main stack, and pushed false.
C14_Witness ==
    /\ Ran("z")
    /\ last.stack = <<>>
    /\ last.auxiliary_stack # <<>>
    /\ stack = <<DBool(FALSE)>>

-----------------------------------------------------------------------------
(* C15                                                                     *)

\* the last loop iteration fetched `+` with two Integers on top of the main
\* stack
PlusFoundIntegers ==
    /\ steps > 0 \/ status = "fault"
    /\ last.opcode = Ord("+")
    /\ TopOf(last.stack).tag = "Int"
    /\ SecondOf(last.stack).tag = "Int"

\* C15, as claimed: `+` with Integers a and b on top pops both and pushes
\* the one Integer a + b: the main stack is one shorter, what was below the
\* operands and the auxiliary stack are unchanged.
C15_PlusAddsIntegers ==
    PlusFoundIntegers =>
        /\ status \in {"running", "halted"}
        /\ Len(stack) = Len(last.stack) - 1
        /\ TopOf(stack) = DInt(SecondOf(last.stack).val + TopOf(last.stack).val)
        /\ Below(stack) = Below(Below(last.stack))
        /\ auxiliary_stack = last.auxiliary_stack

-----------------------------------------------------------------------------
(* C16                                                                     *)

\* the whitespace and control characters of ASCII: the bytes up to the
\* space, and DEL
WhitespaceOrControl == {b \in 0..127 : b <= Ord(" ") \/ b = 127}

\* C16, as claimed: the fetch of a whitespace or control character, tab and
\* carriage return as well as space and newline, raises no fault and
\* changes nothing but pc, which is one more.
C16_WhitespaceIsIgnorable ==
    [][ (status = "running" /\ opcode_at(program, pc) \in WhitespaceOrControl) =>
              /\ status' = "running"
              /\ fault' = NoFault
              /\ stack' = stack
              /\ auxiliary_stack' = auxiliary_stack
              /\ output' = output
              /\ pc' = pc + 1
      ]_vars

-----------------------------------------------------------------------------
(* C17                                                                     *)

\* the counter values of the scan the last `]` made
CountsOfLast ==
    jump_back_counts([stack |-> last.stack,
                      auxiliary_stack |-> last.auxiliary_stack,
                      pc |-> last.at], 0)

\* C17: a `]` at address r whose balancing `[` under proper nesting is at
\* address l leaves pc = l - 1, the highest address when l = 0, so that the
\* loop resumes at l; the pairs nested between l and r are passed over, the
\* nesting counter is at least 1 from the first scanned byte on, the scan
\* ends on the `[` at l, and both stacks stay as they were.
C17_JumpBackFindsBalancingBracket ==
    (steps > 0 /\ last.opcode = Ord("]") /\ MatchOf(program, last.at) # None) =>
        LET l == MatchOf(program, last.at) IN
        /\ status = "running"
        /\ last.left = IF l = 0 THEN UsizeMax ELSE l - 1
        /\ pc = l
        /\ opcode_at(program, l) = Ord("[")
        /\ \A i \in DOMAIN CountsOfLast : CountsOfLast[i] >= 1
        /\ Len(CountsOfLast) = (last.at - l) + 1
        /\ stack = last.stack
        /\ auxiliary_stack = last.auxiliary_stack

\* C17 witness: the outer `]` of " [6j[]]" has run: its `[` is at address
\* 1, a pair is nested in between, and it left pc at address 0.
C17_Witness ==
    /\ program = Prog(<<" ", "[", "6", "j", "[", "]", "]">>)
    /\ Ran("]")
    /\ last.at = 6
    /\ MatchOf(program, last.at) = 1
    /\ last.left = 0
    /\ pc = 1

-----------------------------------------------------------------------------
(* C18                                                                     *)

\* the addresses r > l with as many `(` as `)` in l..r
BalancedTo(prog, l) ==
    {r \in (l + 1)..(Len(prog) - 1) :
        CountOf(prog, Ord("("), l, r) = CountOf(prog, Ord(")"), l, r)}

\* the `)` that balances the `(` at address l under proper nesting: the
\* nearest address after l up to which the parentheses from l balance; None
\* when no `)` balances it
CloseOf(prog, l) ==
    IF BalancedTo(prog, l) = {} THEN None
    ELSE CHOOSE r \in BalancedTo(prog, l) : \A k \in BalancedTo(prog, l) : r <= k

\* C18: a `(` at address l whose balancing `)` under proper nesting is at
\* address r leaves pc = r, so that the next fetch is at r + 1 and no byte
\* of l+1..r is executed on entry, whatever pairs are nested inside; a `)`
\* that is fetched is a no-op; neither changes a stack or writes anything.
C18_ParenSkipsToBalancingClose ==
    [][ /\ (/\ status = "running"
            /\ opcode_at(program, pc) = Ord("(")
            /\ CloseOf(program, pc) # None) =>
              /\ status' = "running"
              /\ opcode_at(program, CloseOf(program, pc)) = Ord(")")
              /\ last'.left = CloseOf(program, pc)
              /\ pc' = CloseOf(program, pc) + 1
              /\ stack' = stack
              /\ auxiliary_stack' = auxiliary_stack
              /\ output' = output
        /\ (status = "running" /\ opcode_at(program, pc) = Ord(")")) =>
              /\ status' = "running"
              /\ fault' = NoFault
              /\ pc' = pc + 1
              /\ stack' = stack
              /\ auxiliary_stack' = auxiliary_stack
              /\ output' = output
      ]_vars

\* C18 witness: the outer `(` of "(1(2)3)4p" has run: it left pc on its
\* `)` at address 6, past the nested pair, with nothing pushed.
C18_Witness ==
    /\ program = Prog(<<"(", "1", "(", "2", ")", "3", ")", "4", "p">>)
    /\ Ran("(")
    /\ last.at = 0
    /\ CloseOf(program, last.at) = 6
    /\ last.left = 6
    /\ pc = 7
    /\ stack = <<>>

-----------------------------------------------------------------------------
(* C19                                                                     *)

\* the address of the first `#` or newline after address k, the last
\* address of the program when there is none
RECURSIVE CommentEnd(_, _)
CommentEnd(prog, k) ==
    IF k + 1 >= Len(prog) THEN Len(prog) - 1
    ELSE IF prog[k + 2] \in {Ord("#"), Ord("\n")} THEN k + 1
    ELSE CommentEnd(prog, k + 1)

\* the address of the last byte of the instruction that starts at address
\* k: the last digit of a literal, the character of a character literal,
\* the end of a comment, k itself for the instructions of one byte
InstructionEnd(prog, k) ==
    LET b == opcode_at(prog, k) IN
    CASE b \in Digits -> (k + DigitRun(SubSeq(prog, k + 1, Len(prog)))) - 1
      [] b = Ord("'") -> IF opcode_at(prog, k + 1) = Ord("\\") THEN k + 2 ELSE k + 1
      [] b = Ord("#") -> CommentEnd(prog, k)
      [] OTHER -> k

\* C19, as claimed: `s` removes exactly one value; when it popped Boolean
\* true the instruction after it is skipped as a whole, also when it spans
\* several bytes, so that the next fetch is one past that instruction's
\* last byte; when it popped false the next fetch is the byte after `s`.
C19_SkipsWholeInstruction ==
    (steps > 0 /\ last.opcode = Ord("s") /\ TopOf(last.stack).tag = "Bool") =>
        /\ status \in {"running", "halted"}
        /\ stack = Below(last.stack)
        /\ auxiliary_stack = last.auxiliary_stack
        /\ pc = IF TopOf(last.stack).val
                THEN InstructionEnd(program, last.at + 1) + 1
                ELSE last.at + 1

-----------------------------------------------------------------------------
(* C20                                                                     *)

\* the last loop iteration ran `'`, fetched at address k
CharifyRanAt(k) == steps > 0 /\ last.opcode = Ord("'") /\ last.at = k

\* the run went on, or halted since, with the main stack the last
\* instruction found plus the value v, the next fetch at address n
PushedAndResumed(v, n) ==
    /\ status \in {"running", "halted"}
    /\ fault = NoFault
    /\ stack = Append(last.stack, v)
    /\ auxiliary_stack = last.auxiliary_stack
    /\ pc = n

\* the last instruction ended the run in a fatal error, nothing pushed
FatalNothingPushed ==
    /\ status = "fault"
    /\ fault.code # 0
    /\ fault.msg # ""
    /\ stack = last.stack
    /\ auxiliary_stack = last.auxiliary_stack

\* C20: `'` at address k followed by a byte c other than backslash pushes
\* Character c and the next fetch is at k + 2; followed by backslash and
\* `n` it pushes the newline Character and the next fetch is at k + 3;
\* followed by backslash and any other byte, by backslash at the end of
\* the program, or by nothing, it ends the run in a fatal error with
\* nothing pushed.
C20_CharacterLiteral ==
    \A k \in 0..(Len(program) - 1) :
        CharifyRanAt(k) =>
            LET c == opcode_at(program, k + 1)
                c2 == opcode_at(program, k + 2) IN
            /\ (c # None /\ c # Ord("\\")) => PushedAndResumed(DChar(c), k + 2)
            /\ (c = Ord("\\") /\ c2 = Ord("n")) =>
                  PushedAndResumed(DChar(Ord("\n")), k + 3)
            /\ (c = Ord("\\") /\ c2 # Ord("n")) => FatalNothingPushed
            /\ c = None => FatalNothingPushed

\* C20 witness: the `'\n` of "t'\np" has run: the newline Character lies
\* above true and the next fetch is at the `p`.
C20_Witness ==
    /\ program = Prog(<<"t", "'", "\\", "n", "p">>)
    /\ CharifyRanAt(1)
    /\ status = "running"
    /\ stack = <<DBool(TRUE), DChar(Ord("\n"))>>
    /\ pc = 4

-----------------------------------------------------------------------------
(* C21                                                                     *)

\* the addresses after k that hold a `#` or a newline
TerminatorsAfter(prog, k) ==
    {t \in (k + 1)..(Len(prog) - 1) : prog[t + 1] \in {Ord("#"), Ord("\n")}}

\* the first `#` or newline after address k, None when there is none
TerminatorOf(prog, k) ==
    IF TerminatorsAfter(prog, k) = {} THEN None
    ELSE CHOOSE t \in TerminatorsAfter(prog, k) :
             \A u \in TerminatorsAfter(prog, k) : t <= u

\* C21: `#` at address k leaves pc on the first `#` or newline after k, so
\* that the next fetch is one past that terminator: no byte between them
\* and not the terminator itself is executed; without a terminator it
\* leaves pc at the end of the program and the loop halts at the next
\* fetch; the stacks and the output are unchanged and no fault is raised.
C21_CommentRunsToTerminator ==
    [][ /\ (status = "running" /\ opcode_at(program, pc) = Ord("#")) =>
              /\ status' = "running"
              /\ fault' = NoFault
              /\ stack' = stack
              /\ auxiliary_stack' = auxiliary_stack
              /\ output' = output
              /\ last'.left = IF TerminatorOf(program, pc) = None THEN Len(program)
                              ELSE TerminatorOf(program, pc)
              /\ pc' = last'.left + 1
        /\ (Ran("#") /\ TerminatorOf(program, last.at) = None) =>
              /\ status' = "halted"
              /\ fault' = NoFault
              /\ stack' = last.stack
              /\ auxiliary_stack' = last.auxiliary_stack
      ]_vars

\* C21 witness: the comment of "1#p#p" has run: pc was left on the closing
\* `#` at address 3, the next fetch is the `p` after it, 1 still on the
\* stack and nothing printed.
C21_Witness ==
    /\ program = Prog(<<"1", "#", "p", "#", "p">>)
    /\ Ran("#")
    /\ last.at = 1
    /\ last.left = 3
    /\ pc = 4
    /\ stack = <<DInt(1)>>
    /\ output = <<>>

-----------------------------------------------------------------------------
(* C22                                                                     *)

\* C22: `[` at address k pushes Integer k and leaves pc where it was, so
\* that the next fetch is k + 1; a `j` that pops the address k of a `[`
\* makes the next fetch k, the `[` itself, which then pushes k again.
C22_BracketPushesItsAddress ==
    [][ /\ (status = "running" /\ opcode_at(program, pc) = Ord("[")) =>
              /\ status' = "running"
              /\ stack' = Append(stack, DInt(pc))
              /\ auxiliary_stack' = auxiliary_stack
              /\ last'.left = pc
              /\ pc' = pc + 1
        /\ (/\ status = "running"
            /\ opcode_at(program, pc) = Ord("j")
            /\ TopOf(stack).tag = "Int"
            /\ opcode_at(program, TopOf(stack).val) = Ord("[")) =>
              /\ status' = "running"
              /\ stack' = Below(stack)
              /\ pc' = TopOf(stack).val
        /\ (/\ Ran("j")
            /\ TopOf(last.stack).tag = "Int"
            /\ opcode_at(program, TopOf(last.stack).val) = Ord("[")) =>
              /\ status' = "running"
              /\ stack' = last.stack
              /\ pc' = TopOf(last.stack).val + 1
      ]_vars

\* C22 witness: in " [j" the `[` at address 1 has run a second time, after
\* the `j` that popped the 1 it had pushed, and has pushed 1 again.
C22_Witness ==
    /\ program = Prog(<<" ", "[", "j">>)
    /\ steps = 4
    /\ Ran("[")
    /\ last.at = 1
    /\ last.stack = <<>>
    /\ stack = <<DInt(1)>>
    /\ pc = 2

-----------------------------------------------------------------------------
(* C23                                                                     *)

\* C23: a `]` that no `[` balances neither faults nor halts: the scan goes
\* down to address 0 and wraps to the highest address, where there is no
\* byte and it ends; the loop's increment wraps pc to 0, so the next fetch
\* is the first byte of the program, both stacks as they were.
C23_UnbalancedJumpBackRestarts ==
    (steps > 0 /\ last.opcode = Ord("]") /\ MatchOf(program, last.at) = None) =>
        /\ status = "running"
        /\ fault = NoFault
        /\ last.left = UsizeMax
        /\ opcode_at(program, last.left) = None
        /\ Len(CountsOfLast) = last.at + 1
        /\ pc = 0
        /\ opcode_at(program, pc) # None
        /\ stack = last.stack
        /\ auxiliary_stack = last.auxiliary_stack

\* C23 witness: a `]` that is not the first byte of its program and has no
\* `[` has run with a value on the stack: the run is back at address 0.
C23_Witness ==
    /\ Ran("]")
    /\ last.at > 0
    /\ MatchOf(program, last.at) = None
    /\ last.left = UsizeMax
    /\ pc = 0
    /\ stack # <<>>
    /\ stack = last.stack

-----------------------------------------------------------------------------
(* C24                                                                     *)

\* C24: a `(` that no `)` balances scans to the end of the program and
\* returns: no fault is raised, nothing is pushed, popped or written, and
\* the next fetch finds no byte, so that the loop halts with both stacks
\* as the `(` found them and no byte after the `(` executed.
C24_UnbalancedParenHalts ==
    [][ /\ (/\ status = "running"
            /\ opcode_at(program, pc) = Ord("(")
            /\ CloseOf(program, pc) = None) =>
              /\ status' = "running"
              /\ fault' = NoFault
              /\ last'.left = Len(program)
              /\ pc' = Len(program) + 1
              /\ opcode_at(program, pc') = None
              /\ stack' = stack
              /\ auxiliary_stack' = auxiliary_stack
              /\ output' = output
        /\ (Ran("(") /\ CloseOf(program, last.at) = None) =>
              /\ status' = "halted"
              /\ fault' = NoFault
              /\ steps' = steps
              /\ stack' = last.stack
              /\ auxiliary_stack' = last.auxiliary_stack
              /\ output' = output
      ]_vars

\* C24 witness: the run of "t(1p" has halted after its `(`: true is still
\* on the stack, the literal and the `p` after the `(` were not executed.
C24_Witness ==
    /\ program = Prog(<<"t", "(", "1", "p">>)
    /\ status = "halted"
    /\ steps = 2
    /\ last.opcode = Ord("(")
    /\ last.left = 4
    /\ pc = 5
    /\ stack = <<DBool(TRUE)>>
    /\ output = <<>>

-----------------------------------------------------------------------------
(* C25                                                                     *)

\* the variants of the values of a stack
TagsOf(st) == {st[i].tag : i \in 1..Len(st)}

\* C25: from the initial state, both stacks empty, every value of the main
\* and of the auxiliary stack is an Integer, a Boolean or a Character: no
\* instruction pushes a String or a Floating-point value.
C25_OnlyIntBoolChar ==
    /\ TagsOf(stack) \subseteq {"Int", "Bool", "Char"}
    /\ TagsOf(auxiliary_stack) \subseteq {"Int", "Bool", "Char"}
    /\ TagsOf(last.stack) \cup TagsOf(last.auxiliary_stack) \subseteq {"Int", "Bool", "Char"}
    /\ \A i \in 1..Len(stack) :
          CASE stack[i].tag = "Int" -> stack[i].val \in Int
            [] stack[i].tag = "Bool" -> stack[i].val \in BOOLEAN
            [] stack[i].tag = "Char" -> stack[i].val \in 0..255
            [] OTHER -> FALSE

\* C25 witness: the three variants are on the stacks at once: an Integer on
\* the auxiliary stack, a Boolean and a Character on the main stack.
C25_Witness ==
    /\ status \in {"running", "halted"}
    /\ steps >= 4
    /\ TagsOf(auxiliary_stack) = {"Int"}
    /\ TagsOf(stack) = {"Bool", "Char"}

-----------------------------------------------------------------------------
(* C26                                                                     *)

\* a program with no `j` byte, no `]` byte and no digit as its last byte
WithoutBackwardJumps(prog) ==
    /\ \A i \in 1..Len(prog) : prog[i] \notin {Ord("j"), Ord("]")}
    /\ prog # <<>> => prog[Len(prog)] \notin Digits

\* C26: in the run of a program with no `j`, no `]` and no digit as its
\* last byte the address fetched grows with every loop step and never
\* wraps, no instruction fails to return, and the loop makes at most as
\* many steps as the program has bytes: after that many steps there is no
\* byte at pc and the run halts, unless a fatal error or `x` ended it
\* before.
C26_ForwardProgramsTerminate ==
    [][ WithoutBackwardJumps(program) =>
            /\ (status = "running" /\ status' = "running") =>
                  (pc' > pc /\ steps' = steps + 1)
            /\ status' \in {"running", "halted", "fault", "exited"}
            /\ status' = "running" => pc' >= steps'
            /\ steps' <= Len(program)
            /\ (status = "running" /\ steps = Len(program)) =>
                  (opcode_at(program, pc) = None /\ status' = "halted")
            /\ status \in {"halted", "fault", "exited"} => status' = status
      ]_vars

\* C26 witness: the run of "tsx42 d+p", nine bytes, has halted past the
\* last byte after seven loop steps, having printed 84.
C26_Witness ==
    /\ program = Prog(<<"t", "s", "x", "4", "2", " ", "d", "+", "p">>)
    /\ WithoutBackwardJumps(program)
    /\ status = "halted"
    /\ steps = 7
    /\ pc = Len(program)
    /\ output = <<Ord("8"), Ord("4")>>

====
